---- MODULE Spec2Model ----
(***************************************************************************)
(* The database self checks of gratipay/models/__init__.py: check_db and   *)
(* the five queries it runs (_check_balances, _check_no_team_balances,     *)
(* _check_tips, _check_orphans, _check_orphans_no_tips), over a database   *)
(* of participants, teams, exchanges, transfers, payments, paydays, tips,  *)
(* elsewhere accounts and absorptions.  Amounts are integers (cents).      *)
(***************************************************************************)
EXTENDS Integers, Sequences, FiniteSets

VARIABLES db, pc, out, snap, isolation, commits

vars == <<db, pc, out, snap, isolation, commits>>

(***************************************************************************)
(* Bounds of the model.                                                    *)
(***************************************************************************)
MaxExchanges == 1
MaxTransfers == 2
MaxPayments == 1
MaxTeamPayments == 3
MaxTips == 2
MaxBalance == 2
MaxWrites == 2
MaxCommits == 3

(***************************************************************************)
(* The values rows are built from.                                         *)
(***************************************************************************)
Participants == {"alice", "bob"}
Teams == {"gratiteam", "otherteam"}
Statuses == {"unknown", "succeeded", "failed", "pending"}
Directions == {"to-participant", "to-team"}
Platforms == {"github", "twitter"}
ExchangeAmounts == {-2, 0, 2}
Fees == {1}
Amounts == {1}
TipAmounts == {0, 1}
Times == {1, 2}
Balances == (0 - MaxBalance)..MaxBalance

ExchangeRows == [participant : Participants, amount : ExchangeAmounts, fee : Fees, status : Statuses]
TransferRows == {t \in [tipper : Participants, tippee : Participants, amount : Amounts] : t.tipper # t.tippee}
PaymentRows == [participant : Participants, team : Teams, amount : Amounts, direction : Directions]
TipRows == {t \in [tipper : Participants, tippee : Participants, mtime : Times, amount : TipAmounts] : t.tipper # t.tippee}
ElsewhereRows == [platform : Platforms, participant : Participants]
AbsorptionRows == {a \in [absorbed_by : Participants, archived_as : Participants] : a.absorbed_by # a.archived_as}
RunningPayday == [ts_start |-> 2, ts_end |-> 1]
FinishedPayday == [ts_start |-> 1, ts_end |-> 2]

SeqUpTo(S, n) == UNION {[1..k -> S] : k \in 0..n}

RECURSIVE SumOver(_, _)
SumOver(f, S) == IF S = {} THEN 0 ELSE LET x == CHOOSE y \in S : TRUE IN f[x] + SumOver(f, S \ {x})

(***************************************************************************)
(* select <key> as username, sum(<val>) as a ... group by <key>: one row   *)
(* for every key that has a selected row.  The tag keeps the rows of the   *)
(* streams apart under UNION ALL.                                          *)
(***************************************************************************)
GroupSum(tag, sel, key, val) == {[stream |-> tag, username |-> k, a |-> SumOver(val, {i \in sel : key[i] = k})] : k \in {key[i] : i \in sel}}

(***************************************************************************)
(* _check_balances: the six streams of the inner UNION ALL.                *)
(***************************************************************************)
PositiveExchanges(d) == LET e == d.exchanges IN GroupSum("exchanges+", {i \in DOMAIN e : e[i].amount > 0 /\ (e[i].status = "unknown" \/ e[i].status = "succeeded")}, [i \in DOMAIN e |-> e[i].participant], [i \in DOMAIN e |-> e[i].amount])

NegativeExchanges_NoFee(d) == LET e == d.exchanges IN GroupSum("exchanges-", {i \in DOMAIN e : e[i].amount < 0 /\ (e[i].status = "unknown" \/ e[i].status # "failed")}, [i \in DOMAIN e |-> e[i].participant], [i \in DOMAIN e |-> e[i].amount])

NegativeExchanges(d) == LET e == d.exchanges IN GroupSum("exchanges-", {i \in DOMAIN e : e[i].amount < 0 /\ (e[i].status = "unknown" \/ e[i].status # "failed")}, [i \in DOMAIN e |-> e[i].participant], [i \in DOMAIN e |-> e[i].amount - e[i].fee])

TipperTransfers(d) == LET t == d.transfers IN GroupSum("tipper", DOMAIN t, [i \in DOMAIN t |-> t[i].tipper], [i \in DOMAIN t |-> 0 - t[i].amount])

ToParticipantPayments(d) == LET p == d.payments IN GroupSum("to-participant", {i \in DOMAIN p : p[i].direction = "to-participant"}, [i \in DOMAIN p |-> p[i].participant], [i \in DOMAIN p |-> p[i].amount])

ToTeamPayments(d) == LET p == d.payments IN GroupSum("to-team", {i \in DOMAIN p : p[i].direction = "to-team"}, [i \in DOMAIN p |-> p[i].participant], [i \in DOMAIN p |-> 0 - p[i].amount])

TippeeTransfers(d) == LET t == d.transfers IN GroupSum("tippee", DOMAIN t, [i \in DOMAIN t |-> t[i].tippee], [i \in DOMAIN t |-> t[i].amount])

foo(d) == PositiveExchanges(d) \cup NegativeExchanges(d) \cup TipperTransfers(d) \cup ToParticipantPayments(d) \cup ToTeamPayments(d) \cup TippeeTransfers(d)

\* select username, sum(a) as expected from foo group by username
foo2(d) == LET f == foo(d) IN {[username |-> u, expected |-> SumOver([r \in f |-> r.a], {r \in f : r.username = u})] : u \in {r.username : r \in f}}

\* foo2 join participants p on p.username = foo2.username where expected <> p.balance
ConflictingBalances(d) == {[username |-> r.username, expected |-> r.expected, actual |-> d.participants[r.username]] : r \in {q \in foo2(d) : q.username \in DOMAIN d.participants /\ q.expected # d.participants[q.username]}}

\* assert len(b) == 0, "conflicting balances: {}".format(b)
_check_balances(d) == LET b == ConflictingBalances(d) IN [raised |-> b # {}, rows |-> b]

(***************************************************************************)
(* _check_no_team_balances.                                                *)
(***************************************************************************)
\* select exists (select * from paydays where ts_end < ts_start) as running
PaydayRunning(d) == \E p \in d.paydays : p.ts_end < p.ts_start

\* select team, sum(<val>) as delta ... group by team
GroupDelta(tag, sel, key, val) == {[stream |-> tag, team |-> k, delta |-> SumOver(val, {i \in sel : key[i] = k})] : k \in {key[i] : i \in sel}}

TeamToParticipant_NotNegated(d) == LET p == d.payments IN GroupDelta("to-participant", {i \in DOMAIN p : p[i].direction = "to-participant"}, [i \in DOMAIN p |-> p[i].team], [i \in DOMAIN p |-> p[i].amount])

TeamToParticipant(d) == LET p == d.payments IN GroupDelta("to-participant", {i \in DOMAIN p : p[i].direction = "to-participant"}, [i \in DOMAIN p |-> p[i].team], [i \in DOMAIN p |-> 0 - p[i].amount])

TeamToTeam(d) == LET p == d.payments IN GroupDelta("to-team", {i \in DOMAIN p : p[i].direction = "to-team"}, [i \in DOMAIN p |-> p[i].team], [i \in DOMAIN p |-> p[i].amount])

\* select team, sum(delta) as balance from (... union all ...) group by team
TeamBalances(d) == LET f == TeamToParticipant(d) \cup TeamToTeam(d) IN {[team |-> t, balance |-> SumOver([r \in f |-> r.delta], {r \in f : r.team = t})] : t \in {r.team : r \in f}}

\* foo2 join teams t on t.slug = foo2.team where balance <> 0
TeamsWithBalance(d) == {[slug |-> r.team, balance |-> r.balance] : r \in {q \in TeamBalances(d) : q.team \in d.teams /\ q.balance # 0}}

\* teams = cursor.all(...); assert len(teams) == 0, "teams with non-zero balance: {}".format(teams)
AssertNoTeams(d) == LET teams == TeamsWithBalance(d) IN [raised |-> teams # {}, rows |-> teams]

_check_no_team_balances_NoPaydayGate(d) == AssertNoTeams(d)

\* if cursor.one("select exists (...) as running"): return
_check_no_team_balances(d) == IF PaydayRunning(d) THEN [raised |-> FALSE, rows |-> {}] ELSE AssertNoTeams(d)

(***************************************************************************)
(* _check_tips.  A row of tips is the row of the log with its position as  *)
(* the row's identity, so two rows of the table are never the same row.    *)
(***************************************************************************)
TipsTable(d) == {[id |-> i, tipper |-> d.tips[i].tipper, tippee |-> d.tips[i].tippee, mtime |-> d.tips[i].mtime, amount |-> d.tips[i].amount] : i \in DOMAIN d.tips}

TipKey(t) == <<t.tipper, t.tippee, t.mtime>>

\* SELECT DISTINCT ON(tipper, tippee, mtime) * FROM tips ORDER BY tipper, tippee, mtime:
\* one row of every key, which one is not determined by the ORDER BY.
DistinctOnKey(d) == LET rows == TipsTable(d) IN {s \in SUBSET rows : (\A t \in rows : \E u \in s : TipKey(u) = TipKey(t)) /\ (\A u, v \in s : TipKey(u) = TipKey(v) => u = v)}

\* count(*) of (SELECT * FROM tips EXCEPT <distinct>)
ConflictingTips_ByAmount(d, distinct) == Cardinality({<<t.tipper, t.tippee, t.mtime, t.amount>> : t \in TipsTable(d)} \ {<<t.tipper, t.tippee, t.mtime, t.amount>> : t \in distinct})

ConflictingTips(d, distinct) == Cardinality(TipsTable(d) \ distinct)

\* assert conflicting_tips == 0
_check_tips(d, distinct) == LET conflicting_tips == ConflictingTips(d, distinct) IN [raised |-> conflicting_tips # 0, rows |-> conflicting_tips]

(***************************************************************************)
(* _check_orphans.  A result is kept as the number of times each username  *)
(* is in it.                                                               *)
(***************************************************************************)
HasElsewhere(d, username) == \E e \in d.elsewhere : e.participant = username

IsArchived(d, username) == \E a \in d.absorptions : a.archived_as = username

Orphans_IgnoringAbsorptions(d) == [u \in {username \in DOMAIN d.participants : ~HasElsewhere(d, username)} |-> 1]

Orphans(d) == [u \in {username \in DOMAIN d.participants : ~HasElsewhere(d, username) /\ ~IsArchived(d, username)} |-> 1]

\* assert len(orphans) == 0, "missing elsewheres: {}".format(list(orphans))
_check_orphans(d) == LET orphans == Orphans(d) IN [raised |-> DOMAIN orphans # {}, rows |-> orphans]

(***************************************************************************)
(* _check_orphans_no_tips.  current_tips is the view of the latest row of  *)
(* every (tipper, tippee) pair; among rows of one pair with the same       *)
(* latest mtime the view keeps any one.                                    *)
(***************************************************************************)
IsLatest(rows, t) == \A u \in rows : (u.tipper = t.tipper /\ u.tippee = t.tippee) => u.mtime <= t.mtime

SamePair(u, v) == u.tipper = v.tipper /\ u.tippee = v.tippee

CurrentTips(d) == LET rows == TipsTable(d) IN {s \in SUBSET {t \in rows : IsLatest(rows, t)} : (\A t \in rows : \E u \in s : SamePair(u, t)) /\ (\A u, v \in s : SamePair(u, v) => u = v)}

\* WITH valid_tips AS (SELECT * FROM current_tips WHERE amount > 0)
valid_tips(current_tips) == {t \in current_tips : t.amount > 0}

\* SELECT tipper AS username FROM valid_tips UNION ALL SELECT tippee AS username FROM valid_tips
UsernamesUnionAll(v, username) == Cardinality({t \in v : t.tipper = username}) + Cardinality({t \in v : t.tippee = username})

\* SELECT tipper AS username FROM valid_tips UNION SELECT tippee AS username FROM valid_tips
UsernamesUnion(v, username) == IF UsernamesUnionAll(v, username) > 0 THEN 1 ELSE 0

OrphansWithTips_UnionAll(d, current_tips) == LET v == valid_tips(current_tips) IN [u \in {username \in Participants : UsernamesUnionAll(v, username) > 0 /\ ~HasElsewhere(d, username)} |-> UsernamesUnionAll(v, u)]

OrphansWithTips(d, current_tips) == LET v == valid_tips(current_tips) IN [u \in {username \in Participants : UsernamesUnion(v, username) > 0 /\ ~HasElsewhere(d, username)} |-> UsernamesUnion(v, u)]

\* assert len(orphans_with_tips) == 0, orphans_with_tips
_check_orphans_no_tips(d, current_tips) == LET orphans_with_tips == OrphansWithTips(d, current_tips) IN [raised |-> DOMAIN orphans_with_tips # {}, rows |-> orphans_with_tips]

(***************************************************************************)
(* check_db: the five checks in order; a failed assert raises out of       *)
(* check_db, so the checks after it are not run.                           *)
(***************************************************************************)
Passed(ran) == [raised |-> "none", ran |-> ran, rows |-> {}]

Raised(ran, r) == [raised |-> ran[Len(ran)], ran |-> ran, rows |-> r.rows]

check_db_NoTips(d, distinct, current_tips) == IF _check_balances(d).raised THEN Raised(<<"_check_balances">>, _check_balances(d))
    ELSE IF _check_no_team_balances(d).raised THEN Raised(<<"_check_balances", "_check_no_team_balances">>, _check_no_team_balances(d))
    ELSE IF _check_orphans(d).raised THEN Raised(<<"_check_balances", "_check_no_team_balances", "_check_orphans">>, _check_orphans(d))
    ELSE IF _check_orphans_no_tips(d, current_tips).raised THEN Raised(<<"_check_balances", "_check_no_team_balances", "_check_orphans", "_check_orphans_no_tips">>, _check_orphans_no_tips(d, current_tips))
    ELSE Passed(<<"_check_balances", "_check_no_team_balances", "_check_orphans", "_check_orphans_no_tips">>)

check_db_StopAtPayday(d, distinct, current_tips) == IF _check_balances(d).raised THEN Raised(<<"_check_balances">>, _check_balances(d))
    ELSE IF PaydayRunning(d) THEN Passed(<<"_check_balances", "_check_no_team_balances">>)
    ELSE IF _check_no_team_balances(d).raised THEN Raised(<<"_check_balances", "_check_no_team_balances">>, _check_no_team_balances(d))
    ELSE IF _check_tips(d, distinct).raised THEN Raised(<<"_check_balances", "_check_no_team_balances", "_check_tips">>, _check_tips(d, distinct))
    ELSE IF _check_orphans(d).raised THEN Raised(<<"_check_balances", "_check_no_team_balances", "_check_tips", "_check_orphans">>, _check_orphans(d))
    ELSE IF _check_orphans_no_tips(d, current_tips).raised THEN Raised(<<"_check_balances", "_check_no_team_balances", "_check_tips", "_check_orphans", "_check_orphans_no_tips">>, _check_orphans_no_tips(d, current_tips))
    ELSE Passed(<<"_check_balances", "_check_no_team_balances", "_check_tips", "_check_orphans", "_check_orphans_no_tips">>)

check_db(d, distinct, current_tips) == IF _check_balances(d).raised THEN Raised(<<"_check_balances">>, _check_balances(d))
    ELSE IF _check_no_team_balances(d).raised THEN Raised(<<"_check_balances", "_check_no_team_balances">>, _check_no_team_balances(d))
    ELSE IF _check_tips(d, distinct).raised THEN Raised(<<"_check_balances", "_check_no_team_balances", "_check_tips">>, _check_tips(d, distinct))
    ELSE IF _check_orphans(d).raised THEN Raised(<<"_check_balances", "_check_no_team_balances", "_check_tips", "_check_orphans">>, _check_orphans(d))
    ELSE IF _check_orphans_no_tips(d, current_tips).raised THEN Raised(<<"_check_balances", "_check_no_team_balances", "_check_tips", "_check_orphans", "_check_orphans_no_tips">>, _check_orphans_no_tips(d, current_tips))
    ELSE Passed(<<"_check_balances", "_check_no_team_balances", "_check_tips", "_check_orphans", "_check_orphans_no_tips">>)

(***************************************************************************)
(* The state.  db is the committed database; out is what the last call     *)
(* returned or raised; pc and snap belong to a self_check that is executed *)
(* query by query: snap is the database as committed when it began.        *)
(* isolation is the isolation level of the transaction of get_cursor(),    *)
(* which self_check does not choose; commits counts the writers' commits.  *)
(***************************************************************************)
CleanDb == [participants |-> [u \in Participants |-> 0], teams |-> Teams, exchanges |-> <<>>, transfers |-> <<>>, payments |-> <<>>, paydays |-> {}, tips |-> <<>>, elsewhere |-> {[platform |-> "github", participant |-> u] : u \in Participants}, absorptions |-> {}]

NoCall == [op |-> "none", res |-> Passed(<<>>)]

Idle == pc = "idle" /\ out = NoCall /\ snap = db /\ isolation = "read committed" /\ commits = 0

Init == db = CleanDb /\ Idle

InitBalances == /\ \E b \in [Participants -> Balances], e \in SeqUpTo(ExchangeRows, MaxExchanges), t \in SeqUpTo(TransferRows, MaxTransfers), p \in SeqUpTo(PaymentRows, MaxPayments) : db = [CleanDb EXCEPT !.participants = b, !.exchanges = e, !.transfers = t, !.payments = p]
                /\ Idle

InitTeams == /\ \E p \in SeqUpTo(PaymentRows, MaxTeamPayments), y \in SUBSET {RunningPayday, FinishedPayday} : db = [CleanDb EXCEPT !.payments = p, !.paydays = y]
             /\ Idle

InitIdentity == /\ \E t \in SeqUpTo(TipRows, MaxTips), e \in SUBSET ElsewhereRows, a \in SUBSET AbsorptionRows : db = [CleanDb EXCEPT !.tips = t, !.elsewhere = e, !.absorptions = a]
                /\ Idle

(***************************************************************************)
(* One call of one check on the committed database.                        *)
(***************************************************************************)
Return(op, res) == pc = "idle" /\ pc' = "done" /\ snap' = db /\ out' = [op |-> op, res |-> res] /\ UNCHANGED <<db, isolation, commits>>

CheckBalances == Return("_check_balances", _check_balances(db))

CheckNoTeamBalances == Return("_check_no_team_balances", _check_no_team_balances(db))

CheckTips == \E distinct \in DistinctOnKey(db) : Return("_check_tips", _check_tips(db, distinct))

CheckOrphans == Return("_check_orphans", _check_orphans(db))

CheckOrphansNoTips == \E current_tips \in CurrentTips(db) : Return("_check_orphans_no_tips", _check_orphans_no_tips(db, current_tips))

\* self_check with nothing committed while it runs
SelfCheck == \E distinct \in DistinctOnKey(db), current_tips \in CurrentTips(db) : Return("check_db", check_db(db, distinct, current_tips))

(***************************************************************************)
(* The writers of the database: single statements that insert, update or   *)
(* delete a row, whatever the row.                                         *)
(***************************************************************************)
Write(d) == pc = "idle" /\ commits < MaxWrites /\ db' = d /\ commits' = commits + 1 /\ UNCHANGED <<pc, out, snap, isolation>>

InsertExchange == \E r \in ExchangeRows : Write([db EXCEPT !.exchanges = Append(@, r)])

InsertTransfer == \E r \in TransferRows : Write([db EXCEPT !.transfers = Append(@, r)])

InsertPayment == \E r \in PaymentRows : Write([db EXCEPT !.payments = Append(@, r)])

UpdateBalance == \E u \in Participants, b \in Balances : b # db.participants[u] /\ Write([db EXCEPT !.participants[u] = b])

InsertTip == \E r \in TipRows : Write([db EXCEPT !.tips = Append(@, r)])

InsertElsewhere == \E r \in ElsewhereRows \ db.elsewhere : Write([db EXCEPT !.elsewhere = @ \cup {r}])

DeleteElsewhere == \E r \in db.elsewhere : Write([db EXCEPT !.elsewhere = @ \ {r}])

InsertAbsorption == \E r \in AbsorptionRows \ db.absorptions : Write([db EXCEPT !.absorptions = @ \cup {r}])

StartPayday == ~PaydayRunning(db) /\ Write([db EXCEPT !.paydays = @ \cup {RunningPayday}])

EndPayday == PaydayRunning(db) /\ Write([db EXCEPT !.paydays = (@ \ {RunningPayday}) \cup {FinishedPayday}])

Writers == InsertExchange \/ InsertTransfer \/ InsertPayment \/ UpdateBalance \/ InsertTip \/ InsertElsewhere \/ DeleteElsewhere \/ InsertAbsorption \/ StartPayday \/ EndPayday

Next == Writers \/ SelfCheck

NextIdentity == CheckTips \/ CheckOrphans \/ CheckOrphansNoTips

Spec == Init /\ [][Next]_vars

SpecBalances == InitBalances /\ [][CheckBalances]_vars

SpecTeams == InitTeams /\ [][CheckNoTeamBalances]_vars

SpecIdentity == InitIdentity /\ [][NextIdentity]_vars

(***************************************************************************)
(* self_check executed query by query, while writers commit.  The writers  *)
(* here are whole transactions that leave the database consistent: a       *)
(* transfer moves the amount between the two balances, a payday is started *)
(* and ended, and while it runs payments are taken into a team and paid    *)
(* out of it, each with its balance.  A query reads the database as        *)
(* committed when the query runs (read committed) or as committed when the *)
(* transaction began (repeatable read).                                    *)
(***************************************************************************)
Isolations == {"read committed", "repeatable read"}

InitConc == db = CleanDb /\ pc = "idle" /\ out = NoCall /\ snap = db /\ isolation \in Isolations /\ commits = 0

View == IF isolation = "repeatable read" THEN snap ELSE db

\* with self.get_cursor() as cursor: check_db(cursor)
Begin == pc = "idle" /\ pc' = "_check_balances" /\ snap' = db /\ out' = [op |-> "check_db", res |-> Passed(<<>>)] /\ UNCHANGED <<db, isolation, commits>>

\* a check that, on finding conflicting balances, stores the expected balance
Step_RepairingBalances(at, name, next, r) == /\ pc = at
                                             /\ pc' = IF r.raised THEN "done" ELSE next
                                             /\ out' = [op |-> "check_db", res |-> IF r.raised THEN Raised(Append(out.res.ran, name), r) ELSE Passed(Append(out.res.ran, name))]
                                             /\ db' = [db EXCEPT !.participants = [u \in DOMAIN @ |-> IF name = "_check_balances" /\ (\E q \in r.rows : q.username = u) THEN (CHOOSE q \in r.rows : q.username = u).expected ELSE @[u]]]
                                             /\ UNCHANGED <<snap, isolation, commits>>

Step(at, name, next, r) == /\ pc = at
                           /\ pc' = IF r.raised THEN "done" ELSE next
                           /\ out' = [op |-> "check_db", res |-> IF r.raised THEN Raised(Append(out.res.ran, name), r) ELSE Passed(Append(out.res.ran, name))]
                           /\ UNCHANGED <<db, snap, isolation, commits>>

QueryBalances == Step("_check_balances", "_check_balances", "_check_no_team_balances", _check_balances(View))

\* the paydays query of _check_no_team_balances: return if a payday is running
QueryPaydays == /\ pc = "_check_no_team_balances"
                /\ IF PaydayRunning(View) THEN pc' = "_check_tips" /\ out' = [op |-> "check_db", res |-> Passed(Append(out.res.ran, "_check_no_team_balances"))] ELSE pc' = "teams" /\ out' = out
                /\ UNCHANGED <<db, snap, isolation, commits>>

\* the teams query of _check_no_team_balances
QueryTeams == Step("teams", "_check_no_team_balances", "_check_tips", AssertNoTeams(View))

QueryTips == \E distinct \in DistinctOnKey(View) : Step("_check_tips", "_check_tips", "_check_orphans", _check_tips(View, distinct))

QueryOrphans == Step("_check_orphans", "_check_orphans", "_check_orphans_no_tips", _check_orphans(View))

QueryOrphansNoTips == \E current_tips \in CurrentTips(View) : Step("_check_orphans_no_tips", "_check_orphans_no_tips", "done", _check_orphans_no_tips(View, current_tips))

Commit(d) == pc # "done" /\ commits < MaxCommits /\ db' = d /\ commits' = commits + 1 /\ UNCHANGED <<pc, out, snap, isolation>>

CommitTransfer == \E r \in TransferRows : Commit([db EXCEPT !.transfers = Append(@, r), !.participants[r.tipper] = @ - r.amount, !.participants[r.tippee] = @ + r.amount])

CommitPaydayStart == ~PaydayRunning(db) /\ Commit([db EXCEPT !.paydays = @ \cup {RunningPayday}])

CommitPaymentToTeam == PaydayRunning(db) /\ \E r \in PaymentRows : r.direction = "to-team" /\ Commit([db EXCEPT !.payments = Append(@, r), !.participants[r.participant] = @ - r.amount])

CommitPaymentToParticipant == PaydayRunning(db) /\ \E r \in PaymentRows : r.direction = "to-participant" /\ (\E i \in DOMAIN db.payments : db.payments[i].team = r.team /\ db.payments[i].direction = "to-team") /\ Commit([db EXCEPT !.payments = Append(@, r), !.participants[r.participant] = @ + r.amount])

CommitPaydayEnd == PaydayRunning(db) /\ TeamsWithBalance(db) = {} /\ Commit([db EXCEPT !.paydays = (@ \ {RunningPayday}) \cup {FinishedPayday}])

NextConc == Begin \/ QueryBalances \/ QueryPaydays \/ QueryTeams \/ QueryTips \/ QueryOrphans \/ QueryOrphansNoTips \/ CommitTransfer \/ CommitPaydayStart \/ CommitPaymentToTeam \/ CommitPaymentToParticipant \/ CommitPaydayEnd

SpecConc == InitConc /\ [][NextConc]_vars

(***************************************************************************)
(* self_check executed query by query on a database that the raw writers   *)
(* have left in any state, with no writer committing while the run is in   *)
(* progress, so that a change of the tables during the run is the run's    *)
(* own.  The run may be abandoned between two queries: the with block of   *)
(* self_check is left by an exception and the transaction is discarded.    *)
(***************************************************************************)
InRun == pc \notin {"idle", "done", "cancelled"}

Cancel == InRun /\ pc' = "cancelled" /\ UNCHANGED <<db, out, snap, isolation, commits>>

NextAudit == Writers \/ Begin \/ QueryBalances \/ QueryPaydays \/ QueryTeams \/ QueryTips \/ QueryOrphans \/ QueryOrphansNoTips \/ Cancel

SpecAudit == Init /\ [][NextAudit]_vars

(***************************************************************************)
(* What the checks are to find, stated row by row on the tables.           *)
(***************************************************************************)
ExchangeContribution(r) == IF r.amount > 0 /\ r.status \in {"succeeded", "unknown"} THEN r.amount ELSE IF r.amount < 0 /\ r.status # "failed" THEN r.amount - r.fee ELSE 0

ExchangeCounted(r) == (r.amount > 0 /\ r.status \in {"succeeded", "unknown"}) \/ (r.amount < 0 /\ r.status # "failed")

TransferContribution(r, u) == (IF r.tipper = u THEN 0 - r.amount ELSE 0) + (IF r.tippee = u THEN r.amount ELSE 0)

PaymentContribution(r) == IF r.direction = "to-participant" THEN r.amount ELSE 0 - r.amount

HasCountedRow(d, u) == \/ \E i \in DOMAIN d.exchanges : d.exchanges[i].participant = u /\ ExchangeCounted(d.exchanges[i])
                       \/ \E i \in DOMAIN d.transfers : d.transfers[i].tipper = u \/ d.transfers[i].tippee = u
                       \/ \E i \in DOMAIN d.payments : d.payments[i].participant = u

SignedSum(d, u) == SumOver([i \in DOMAIN d.exchanges |-> ExchangeContribution(d.exchanges[i])], {i \in DOMAIN d.exchanges : d.exchanges[i].participant = u})
                   + SumOver([i \in DOMAIN d.transfers |-> TransferContribution(d.transfers[i], u)], DOMAIN d.transfers)
                   + SumOver([i \in DOMAIN d.payments |-> PaymentContribution(d.payments[i])], {i \in DOMAIN d.payments : d.payments[i].participant = u})

ReportedBalance(rows, u) == {r \in rows : r.username = u}

\* C1: a participant with at least one counted row is reported by
\* _check_balances, with the signed sum as expected and the stored balance as
\* actual, if and only if the stored balance differs from the signed sum.
C1_MismatchIffSignedSumDiffers == out.op = "_check_balances" => \A u \in Participants : HasCountedRow(db, u) => ReportedBalance(out.res.rows, u) = (IF db.participants[u] # SignedSum(db, u) THEN {[username |-> u, expected |-> SignedSum(db, u), actual |-> db.participants[u]]} ELSE {})

C1_Witness == /\ out.op = "_check_balances"
              /\ \E u \in Participants : /\ \E i \in DOMAIN db.exchanges : db.exchanges[i].participant = u /\ db.exchanges[i].amount > 0 /\ db.exchanges[i].status = "succeeded"
                                         /\ \E i \in DOMAIN db.transfers : db.transfers[i].tipper = u
                                         /\ \E i \in DOMAIN db.payments : db.payments[i].participant = u /\ db.payments[i].direction = "to-participant"
                                         /\ SignedSum(db, u) = 2
                                         /\ db.participants[u] = 1
                                         /\ [username |-> u, expected |-> 2, actual |-> 1] \in out.res.rows
                                         /\ \E v \in Participants : HasCountedRow(db, v) /\ ReportedBalance(out.res.rows, v) = {}

\* C3: a participant with no counted row at all is reported by _check_balances
\* if and only if the stored balance is not 0.
C3_NoEventsReportedIffNonZero == out.op = "_check_balances" => \A u \in Participants : ~HasCountedRow(db, u) => (ReportedBalance(out.res.rows, u) # {} <=> db.participants[u] # 0)

TeamDelta(d, t) == SumOver([i \in DOMAIN d.payments |-> IF d.payments[i].direction = "to-team" THEN d.payments[i].amount ELSE 0 - d.payments[i].amount], {i \in DOMAIN d.payments : d.payments[i].team = t})

SettlementInProgress(d) == \E p \in d.paydays : p.ts_end < p.ts_start

ReportedTeam(rows, t) == {r \in rows : r.slug = t}

\* C4: with no settlement in progress, _check_no_team_balances reports a team
\* if and only if its delta, the to-team amounts minus the to-participant
\* amounts, is not 0, and the value reported is that delta.
C4_TeamReportedIffDeltaNonZero == (out.op = "_check_no_team_balances" /\ ~SettlementInProgress(db)) => \A t \in Teams : ReportedTeam(out.res.rows, t) = (IF TeamDelta(db, t) # 0 THEN {[slug |-> t, balance |-> TeamDelta(db, t)]} ELSE {})

C4_Witness == /\ out.op = "_check_no_team_balances"
              /\ ~SettlementInProgress(db)
              /\ \E t \in Teams : /\ \E i, j \in DOMAIN db.payments : db.payments[i].team = t /\ db.payments[j].team = t /\ db.payments[i].direction = "to-team" /\ db.payments[j].direction = "to-participant"
                                  /\ ReportedTeam(out.res.rows, t) = {}
              /\ \E t \in Teams : [slug |-> t, balance |-> -1] \in out.res.rows

TipKeys(d) == {<<d.tips[i].tipper, d.tips[i].tippee, d.tips[i].mtime>> : i \in DOMAIN d.tips}

RowsWithKey(d, k) == {i \in DOMAIN d.tips : <<d.tips[i].tipper, d.tips[i].tippee, d.tips[i].mtime>> = k}

ExcessRows(d) == SumOver([k \in TipKeys(d) |-> Cardinality(RowsWithKey(d, k)) - 1], TipKeys(d))

SharedKey(d) == \E i, j \in DOMAIN d.tips : i # j /\ d.tips[i].tipper = d.tips[j].tipper /\ d.tips[i].tippee = d.tips[j].tippee /\ d.tips[i].mtime = d.tips[j].mtime

\* C7: the count of _check_tips is the number of excess rows, the sum over
\* the (tipper, tippee, mtime) keys of the rows with the key less one, whether
\* the amounts of the rows are equal or not; the check passes if and only if
\* no two rows share a key.
C7_CountIsExcessRows == out.op = "_check_tips" => (out.res.rows = ExcessRows(db) /\ (out.res.raised <=> SharedKey(db)))

C7_Witness == /\ out.op = "_check_tips"
              /\ \E i, j \in DOMAIN db.tips : i # j /\ db.tips[i] = db.tips[j]
              /\ out.res.rows = 1
              /\ out.res.raised

Times_reported(rows, u) == IF u \in DOMAIN rows THEN rows[u] ELSE 0

Involves(r, u) == r.tipper = u \/ r.tippee = u

LatestOfPair(d, i) == \A j \in DOMAIN d.tips : (d.tips[j].tipper = d.tips[i].tipper /\ d.tips[j].tippee = d.tips[i].tippee) => d.tips[j].mtime <= d.tips[i].mtime

NoLink(d, u) == \A e \in d.elsewhere : e.participant # u

\* some latest row of a pair of u has amount > 0
MayHaveActivePledge(d, u) == \E i \in DOMAIN d.tips : Involves(d.tips[i], u) /\ LatestOfPair(d, i) /\ d.tips[i].amount > 0

\* every latest row of some pair of u has amount > 0
HasActivePledge(d, u) == \E i \in DOMAIN d.tips : /\ Involves(d.tips[i], u)
                                                   /\ \A j \in DOMAIN d.tips : (d.tips[j].tipper = d.tips[i].tipper /\ d.tips[j].tippee = d.tips[i].tippee /\ LatestOfPair(d, j)) => d.tips[j].amount > 0

\* C8: _check_orphans_no_tips reports a participant, once, if and only if
\* the participant has no elsewhere account and is the tipper or tippee of a
\* pair whose latest row has amount > 0.  When several rows of a pair share
\* the latest mtime the view may keep any of them: a participant is then
\* reported if all of them are positive, and only if one of them is.
C8_OrphanWithActivePledge == out.op = "_check_orphans_no_tips" =>
    /\ out.res.raised <=> DOMAIN out.res.rows # {}
    /\ \A u \in Participants :
        /\ Times_reported(out.res.rows, u) \in {0, 1}
        /\ (NoLink(db, u) /\ HasActivePledge(db, u)) => (Times_reported(out.res.rows, u) = 1)
        /\ (Times_reported(out.res.rows, u) = 1) => (NoLink(db, u) /\ MayHaveActivePledge(db, u))

C8_RevokedPledgeNotReported == /\ out.op = "_check_orphans_no_tips"
              /\ ~SharedKey(db)
              /\ \E u, v \in Participants : /\ u # v
                                            /\ NoLink(db, u) /\ NoLink(db, v)
                                            /\ \E i, j \in DOMAIN db.tips : /\ i < j
                                                                            /\ db.tips[i] = [tipper |-> u, tippee |-> v, mtime |-> 1, amount |-> 1]
                                                                            /\ db.tips[j] = [tipper |-> u, tippee |-> v, mtime |-> 2, amount |-> 0]
                                            /\ DOMAIN out.res.rows = {}

C8_Witness == /\ out.op = "_check_orphans_no_tips"
                      /\ \E u, v \in Participants : /\ NoLink(db, u)
                                                    /\ \E i, j \in DOMAIN db.tips : db.tips[i].tipper = u /\ db.tips[j].tippee = u /\ db.tips[i].amount > 0 /\ db.tips[j].amount > 0
                                                    /\ Times_reported(out.res.rows, u) = 1

WithLink(d, u, platform) == [d EXCEPT !.elsewhere = @ \cup {[platform |-> platform, participant |-> u]}]

WithAbsorption(d, u, by) == [d EXCEPT !.absorptions = @ \cup {[absorbed_by |-> by, archived_as |-> u]}]

OrphansWithout(rows, u) == [v \in DOMAIN rows \ {u} |-> rows[v]]

\* C9: _check_orphans reports a participant, once, if and only if the
\* participant has no elsewhere account and is the archived_as of no
\* absorption; adding one elsewhere account or one absorption of a reported
\* participant removes that participant from the report and nobody else.
C9_OrphanIffNoLinkNoAbsorption == out.op = "_check_orphans" =>
    \A u \in Participants :
        /\ Times_reported(out.res.rows, u) = (IF NoLink(db, u) /\ (\A a \in db.absorptions : a.archived_as # u) THEN 1 ELSE 0)
        /\ (u \in DOMAIN out.res.rows) =>
            /\ \A platform \in Platforms : _check_orphans(WithLink(db, u, platform)).rows = OrphansWithout(out.res.rows, u)
            /\ \A by \in Participants \ {u} : _check_orphans(WithAbsorption(db, u, by)).rows = OrphansWithout(out.res.rows, u)

C9_Witness == /\ out.op = "_check_orphans"
              /\ \E u, v \in Participants : u # v /\ u \in DOMAIN out.res.rows /\ out.res.rows[u] = 1 /\ NoLink(db, v) /\ v \notin DOMAIN out.res.rows
              /\ out.res.raised

(***************************************************************************)
(* When each check of check_db fails on a database, stated on the tables.   *)
(***************************************************************************)
CheckOrder == <<"_check_balances", "_check_no_team_balances", "_check_tips", "_check_orphans", "_check_orphans_no_tips">>

BalanceViolation(d) == \E u \in Participants : HasCountedRow(d, u) /\ d.participants[u] # SignedSum(d, u)

TeamViolation(d) == ~SettlementInProgress(d) /\ \E t \in Teams : TeamDelta(d, t) # 0

OrphanViolation(d) == \E u \in Participants : NoLink(d, u) /\ (\A a \in d.absorptions : a.archived_as # u)

OrphanPledgeViolation(d) == \E u \in Participants : NoLink(d, u) /\ MayHaveActivePledge(d, u)

Violated(d, c) == CASE c = "_check_balances" -> BalanceViolation(d)
                    [] c = "_check_no_team_balances" -> TeamViolation(d)
                    [] c = "_check_tips" -> SharedKey(d)
                    [] c = "_check_orphans" -> OrphanViolation(d)
                    [] c = "_check_orphans_no_tips" -> OrphanPledgeViolation(d)
                    [] OTHER -> FALSE

ViolatedChecks(d) == {i \in DOMAIN CheckOrder : Violated(d, CheckOrder[i])}

FirstViolated(d) == CHOOSE i \in ViolatedChecks(d) : \A j \in ViolatedChecks(d) : i <= j

Ran(res) == {res.ran[i] : i \in DOMAIN res.ran}

WithFlag(d) == [d EXCEPT !.paydays = @ \cup {RunningPayday}]

WithoutFlag(d) == [d EXCEPT !.paydays = {p \in @ : ~(p.ts_end < p.ts_start)}]

OtherFour == {"_check_balances", "_check_tips", "_check_orphans", "_check_orphans_no_tips"}

SameOtherFour(r1, r2) == \A c \in OtherFour : (c \in Ran(r1) <=> c \in Ran(r2)) /\ (r1.raised = c <=> r2.raised = c) /\ ((r1.raised = c /\ r2.raised = c) => r1.rows = r2.rows)

C6_ReportsOnlyViolationsOfTheStartState == (pc = "done" /\ out.op = "check_db" /\ out.res.raised # "none") => Violated(snap, out.res.raised)

\* the stored balance of some participant is not the signed sum of its rows
StoredBalanceViolation(d) == \E u \in Participants : d.participants[u] # SignedSum(d, u)

\* C10: a run of check_db raises if and only if the database holds a
\* violation of one of the five checks, a non-zero team balance being one
\* only when no settlement is in progress.
C10_RaisesIffViolation == out.op = "check_db" => (out.res.raised # "none" <=> (StoredBalanceViolation(db) \/ TeamViolation(db) \/ SharedKey(db) \/ OrphanViolation(db) \/ OrphanPledgeViolation(db)))

\* C10 but for the participants with no counted row, which _check_balances
\* does not compare (C3): a run of check_db raises if and only if one of the
\* five checks fails on the database.
C10_RaisesIffACheckFails == out.op = "check_db" => (out.res.raised # "none" <=> ViolatedChecks(db) # {})

(***************************************************************************)
(* The run as a reader of the tables.                                      *)
(***************************************************************************)
Tables == <<"exchanges", "transfers", "payments", "participants", "tips", "elsewhere", "absorptions", "paydays">>

SameTables(d, e) == \A i \in DOMAIN Tables : d[Tables[i]] = e[Tables[i]]

\* C11: once a run of self_check has begun, whether it is still in progress,
\* has passed, has raised or was cancelled between two queries, the
\* exchanges, transfers, payments, stored balances, tips, elsewhere links,
\* absorptions and paydays are those of the moment the run began; in
\* particular a balance reported as conflicting keeps its stored value.
C11_AuditRunIsReadOnly == pc # "idle" => SameTables(db, snap)

\* a run that raised on a conflicting balance, which is still the stored one
C11_Witness == /\ pc = "done"
               /\ out.res.raised = "_check_balances"
               /\ \E q \in out.res.rows : q.expected # q.actual /\ db.participants[q.username] = q.actual

\* a run cancelled after the balances and team checks had passed, between two
\* later queries, on a database that the orphans check would have refused
C11_CancelledPartWay == pc = "cancelled" /\ Len(out.res.ran) = 3 /\ OrphanViolation(db) /\ commits > 0

\* a run that passed all five checks on a database that was written to
C11_PassedRun == pc = "done" /\ out.res.raised = "none" /\ Len(out.res.ran) = 5 /\ commits > 0

\* every step of a run that commits next to transactional writers leaves the
\* tables as they were: only a writer's commit changes them.
C11_RunStepsLeaveTables == [][pc' # pc => SameTables(db', db)]_vars

====
